---- MODULE Spec2Model ----
(***************************************************************************)
(* The Search/Edit view of Patient Khata (src/src/pages/SearchPatient.tsx) *)
(* together with the record store it talks to.  One instance of the view   *)
(* component is followed from its first render to after its unmount.       *)
(*                                                                         *)
(* Identifiers are sequences of one-character strings, so that trim() is   *)
(* computed.  Objects are functions from field names to values; a patient  *)
(* document carries name, doctorId and lastVisitDate (age, bloodPressure,  *)
(* disease and prescription are handled by the code exactly as name is,    *)
(* createdAt exactly as doctorId), and may carry an "id" field once an     *)
(* update has written one.                                                 *)
(*                                                                         *)
(* The route guard ProtectedRoute (src/src/components/Sidebar.tsx) and the *)
(* Login page are followed by a specification of their own, AuthSpec.      *)
(***************************************************************************)
EXTENDS Integers, Sequences, FiniteSets, TLC

VARIABLES
    store,                \* patients collection: document id -> data or Absent
    now,                  \* the clock, as last read by new Date()
    writesLeft,           \* changes the store may still go through
    subs,                 \* live onSnapshot listeners
    currentUser,          \* useAuth().currentUser (its uid, or NoUser)
    phase,                \* "rendered" (effect not yet run), "mounted", "unmounted"
    patientId,            \* useState(initialPatientId)
    isLoading,            \* useState(false)
    patient,              \* useState<Patient | null>(null)
    editMode,             \* useState(false)
    updateData,           \* useState<Partial<Patient>>({})
    unsubscribeSnapshot,  \* useState<(() => void) | null>(null)
    search,               \* the handleSearch call suspended at await getDocs
    toast,                \* the notification raised by the latest step, if any
    shownDoc,             \* history: the document whose snapshot patient holds
    draftFrom,            \* history: the documents updateData's values came from
    authLoading,          \* useAuth().loading
    location,             \* the router's path
    rendered,             \* what ProtectedRoute returned when it last rendered
    username,             \* Login: useState("")
    password,             \* Login: useState("")
    loginIsLoading,       \* Login: useState(false), its isLoading
    loginCall             \* Login: the handleSubmit call suspended at await login

vars == <<store, now, writesLeft, subs, currentUser, phase, patientId,
          isLoading, patient, editMode, updateData, unsubscribeSnapshot,
          search, toast, shownDoc, draftFrom, authLoading, location, rendered,
          username, password, loginIsLoading, loginCall>>

viewVars == <<patientId, isLoading, patient, editMode, updateData, unsubscribeSnapshot>>

histVars == <<shownDoc, draftFrom>>

loginVars == <<username, password, loginIsLoading, loginCall>>

\* What lives outside the Search/Edit view: the auth provider's state, the
\* router and the Login page.
appVars == <<currentUser, authLoading, location, rendered, loginVars>>

\* The Search/Edit view and the store.
pageVars == <<store, now, writesLeft, subs, phase, viewVars, search, histVars>>

-----------------------------------------------------------------------------
(* Bounds of the model *)

MaxWrites == 1     \* changes of the store, by this view or by other clients

\* Enough changes for one submit to follow another.
MoreWrites == MaxWrites + 1

-----------------------------------------------------------------------------
(* Values *)

P1 == <<"P", "1">>
P2 == <<"P", "2">>
DocIds == {P1, P2}
NoDoc == <<>>

Doctors == {"D1", "D2"}
NoUser  == "none"

Names == {"A", "B"}

Paths     == {"/login", "/dashboard", "/search-patient"}
Protected == {"/dashboard", "/search-patient"}

\* What the user may type into the two boxes of the Login page.
Usernames == {"", " ", "doc"}
Passwords == {"", "pw"}

\* What the user may type into the patient id box (and what ?patientId= may hold).
IdInputs == { <<>>, <<" ">>, P1, P2 }

Null   == [null |-> TRUE]       \* JavaScript null, for object-valued state
Empty  == [x \in {} |-> TRUE]   \* the object {}
Absent == [absent |-> TRUE]     \* a document that does not exist
NoHandle == 0                   \* null, for the unsubscribe handle
Handles  == 1 .. 3              \* the functions onSnapshot returns

Whitespace == {" ", "\t", "\n"}

RECURSIVE TrimStart(_)
TrimStart(s) ==
    IF s # <<>> /\ Head(s) \in Whitespace THEN TrimStart(Tail(s)) ELSE s

RECURSIVE TrimEnd(_)
TrimEnd(s) ==
    IF s # <<>> /\ s[Len(s)] \in Whitespace
      THEN TrimEnd(SubSeq(s, 1, Len(s) - 1))
      ELSE s

\* A validation that forgets to trim.
NoTrim(s) == s

\* String.prototype.trim
Trim(s) == TrimEnd(TrimStart(s))

\* Date.prototype.toISOString of the clock value t
ToISOString(t) ==
    CASE t = 0 -> "2025-01-01T00:00:00.000Z"
      [] t = 1 -> "2025-01-02T00:00:00.000Z"
      [] t = 2 -> "2025-01-03T00:00:00.000Z"
      [] t = 3 -> "2025-01-04T00:00:00.000Z"
      [] OTHER -> "2025-01-05T00:00:00.000Z"

\* Object spread { ...a, ...b }: the fields of b win.
Spread(a, b) == b @@ a

\* Firestore updateDoc on existing data: the named fields are replaced, the rest kept.
Merge(data, fields) == fields @@ data

Idle == [pc |-> "idle"]

-----------------------------------------------------------------------------
(* The record store *)

\* A change of document d is pushed to every live listener of d.  A listener
\* is handed the document as it is when its callback runs: changes it has
\* not yet been told of reach it as one snapshot.
Notify(ss, d) ==
    { IF s.doc = d THEN [s EXCEPT !.pending = TRUE] ELSE s : s \in ss }

\* An unsubscribe function that detaches nothing.
UnsubscribeNothing(ss, h) == ss

\* The function returned by onSnapshot, called: listener h is detached.
Unsubscribe(ss, h) == { s \in ss : s.id # h }

\* getDocs(query(patients, where doctorId == uid, where __name__ == pid))
QueryMatches(uid, pid) ==
    { d \in DocIds : /\ store[d] # Absent
                     /\ store[d].doctorId = uid
                     /\ d = pid }

InitWrites(w) ==
    /\ store = [d \in DocIds |->
                  [name |-> "A", doctorId |-> "D1", lastVisitDate |-> ToISOString(0)]]
    /\ now = 0
    /\ writesLeft = w
    /\ subs = {}
    /\ currentUser \in Doctors \cup {NoUser}
    /\ phase = "rendered"
    /\ patientId \in IdInputs
    /\ isLoading = FALSE
    /\ patient = Null
    /\ editMode = FALSE
    /\ updateData = Empty
    /\ unsubscribeSnapshot = NoHandle
    /\ search = Idle
    /\ toast = "none"
    /\ shownDoc = NoDoc
    /\ draftFrom = {}

\* The rest of the app while the Search/Edit view is followed: auth has
\* settled and nobody is at the Login page.
AppAtView ==
    /\ authLoading = FALSE
    /\ location = "/search-patient"
    /\ rendered = "nothing"
    /\ username = ""
    /\ password = ""
    /\ loginIsLoading = FALSE
    /\ loginCall = [pc |-> "idle"]

Init == InitWrites(MaxWrites) /\ AppAtView

\* Another client writes one field of a document.
RemoteWrite(d, fields) ==
    /\ writesLeft > 0
    /\ store[d] # Absent
    /\ Merge(store[d], fields) # store[d]
    /\ store' = [store EXCEPT ![d] = Merge(@, fields)]
    /\ subs' = Notify(subs, d)
    /\ writesLeft' = writesLeft - 1
    /\ toast' = "none"
    /\ UNCHANGED <<now, appVars, phase, viewVars, search, histVars>>

RemoteChange ==
    \E d \in DocIds :
        \/ \E n \in Names : RemoteWrite(d, [name |-> n])
        \/ \E u \in Doctors : RemoteWrite(d, [doctorId |-> u])

\* Another client deletes a document.
RemoteDelete ==
    \E d \in DocIds :
        /\ writesLeft > 0
        /\ store[d] # Absent
        /\ store' = [store EXCEPT ![d] = Absent]
        /\ subs' = Notify(subs, d)
        /\ writesLeft' = writesLeft - 1
        /\ toast' = "none"
        /\ UNCHANGED <<now, appVars, phase, viewVars, search, histVars>>

-----------------------------------------------------------------------------
(* The view: handleSearch *)

\* State setters of a component that has been unmounted do nothing.
Alive == phase = "mounted"

\* handleSearch, from its call to await getDocs.  The closure keeps the
\* patientId, currentUser, unsubscribeSnapshot and editMode of the render
\* it was created in.
HandleSearch ==
    IF Trim(patientId') = <<>>
      THEN /\ toast' = "enter_id"
           /\ UNCHANGED <<isLoading, patient, editMode, updateData,
                          unsubscribeSnapshot, search>>
      ELSE IF currentUser = NoUser
        THEN /\ toast' = "must_login"
             /\ UNCHANGED <<isLoading, patient, editMode, updateData,
                            unsubscribeSnapshot, search>>
        ELSE /\ isLoading' = TRUE
             /\ search' = [pc |-> "querying",
                           patientId |-> patientId',
                           uid |-> currentUser,
                           unsubscribeSnapshot |-> unsubscribeSnapshot,
                           editMode |-> editMode]
             /\ toast' = "none"
             /\ UNCHANGED <<patient, editMode, updateData, unsubscribeSnapshot>>

\* An effect that searches whatever the query string holds.
AutoSearchAlways(initialPatientId) == TRUE

\* Line 170: if (initialPatientId), the truthiness of a string.
AutoSearch(initialPatientId) == initialPatientId # <<>>

\* The effect of the first render: auto-search when ?patientId= is given.
MountEffect ==
    /\ phase = "rendered"
    /\ phase' = "mounted"
    /\ UNCHANGED patientId
    /\ IF AutoSearch(patientId)
         THEN HandleSearch
         ELSE UNCHANGED <<isLoading, patient, editMode, updateData,
                          unsubscribeSnapshot, search, toast>>
    /\ UNCHANGED <<store, now, writesLeft, subs, appVars, histVars>>

\* The user types v into the patient id box and presses the search button,
\* which is disabled while isLoading.  (Nothing but handleSearch reads what
\* has been typed.)
ClickSearch ==
    /\ Alive
    /\ ~isLoading
    /\ \E v \in IdInputs : patientId' = v
    /\ HandleSearch
    /\ UNCHANGED <<store, now, writesLeft, subs, appVars, phase, histVars>>

\* A not-found branch that leaves the old listener attached.
NotFoundKeepsListener(ss, h) == ss

\* Lines 88-89: the listeners left by the not-found branch.
ListenersAfterNotFound(ss, h) == Unsubscribe(ss, h)

\* A found branch that attaches the new listener beside the old one.
FoundKeepsListener(ss, h, new) == ss \cup {new}

\* Lines 98-110: the listeners left by the found branch.
ListenersAfterFound(ss, h, new) == Unsubscribe(ss, h) \cup {new}

\* A catch block that detaches the listener of the record on display.
FailDropsListener(ss, h) == Unsubscribe(ss, h)

\* Lines 113-119: the catch block logs and toasts; it detaches nothing.
ListenersAfterFail(ss, h) == ss

\* A not-found branch whose early return skips the reset of isLoading.
LoadingLeftOnNotFound(outcome) == outcome = "not_found"

\* Lines 120-122: finally { setIsLoading(false) }, whatever the outcome.
LoadingAfter(outcome) == FALSE

\* getDocs answers with no document.
QueryEmpty ==
    /\ search.pc = "querying"
    /\ QueryMatches(search.uid, search.patientId) = {}
    /\ toast' = "not_found"
    /\ subs' = ListenersAfterNotFound(subs, search.unsubscribeSnapshot)
    /\ search' = Idle
    /\ IF Alive
         THEN /\ patient' = Null
              /\ shownDoc' = NoDoc
              /\ isLoading' = LoadingAfter("not_found")
              /\ UNCHANGED <<patientId, editMode, updateData, unsubscribeSnapshot,
                             draftFrom>>
         ELSE UNCHANGED <<viewVars, histVars>>
    /\ UNCHANGED <<store, now, writesLeft, appVars, phase>>

\* The handle onSnapshot returns: one that names no listener still live.
\* (The listener the search has just detached is named by nothing any more:
\* the call ends here and the state that held its handle is set anew.)
FreshHandle(ss, h) ==
    /\ h \in Handles \ {s.id : s \in ss}
    /\ \A g \in Handles \ {s.id : s \in ss} : h <= g

\* getDocs answers with a document: the old listener is detached and a new
\* one attached, which is first told of the document as it is.
QueryFound ==
    /\ search.pc = "querying"
    /\ \E foundDocId \in QueryMatches(search.uid, search.patientId) :
       \E unsub \in Handles :
         /\ FreshHandle(Unsubscribe(subs, search.unsubscribeSnapshot), unsub)
         /\ subs' = ListenersAfterFound(subs, search.unsubscribeSnapshot,
                                        [id |-> unsub,
                                         doc |-> foundDocId,
                                         editMode |-> search.editMode,
                                         pending |-> TRUE])
         /\ IF Alive
              THEN /\ unsubscribeSnapshot' = unsub
                   /\ isLoading' = LoadingAfter("found")
              ELSE UNCHANGED <<unsubscribeSnapshot, isLoading>>
    /\ search' = Idle
    /\ toast' = "none"
    /\ UNCHANGED <<store, now, writesLeft, appVars, phase, patientId,
                   patient, editMode, updateData, histVars>>

\* getDocs rejects.
QueryFail ==
    /\ search.pc = "querying"
    /\ toast' = "search_failed"
    /\ search' = Idle
    /\ subs' = ListenersAfterFail(subs, search.unsubscribeSnapshot)
    /\ IF Alive
         THEN /\ isLoading' = LoadingAfter("error")
              /\ UNCHANGED <<patientId, patient, editMode, updateData,
                             unsubscribeSnapshot>>
         ELSE UNCHANGED viewVars
    /\ UNCHANGED <<store, now, writesLeft, appVars, phase, histVars>>

\* The onSnapshot callback of listener s runs.
\* s.editMode is the editMode of the render handleSearch was called in.
Deliver(s) ==
    /\ s \in subs
    /\ s.pending
    /\ subs' = (subs \ {s}) \cup {[s EXCEPT !.pending = FALSE]}
    /\ LET data == store[s.doc] IN
         IF Alive
           THEN IF data # Absent
                  THEN /\ patient' = Spread([id |-> s.doc], data)
                       /\ shownDoc' = s.doc
                       /\ updateData' = IF ~s.editMode THEN data ELSE updateData
                       /\ draftFrom' = IF ~s.editMode THEN {s.doc} ELSE draftFrom
                  ELSE /\ patient' = Null
                       /\ shownDoc' = NoDoc
                       /\ UNCHANGED <<updateData, draftFrom>>
           ELSE UNCHANGED <<patient, updateData, histVars>>
    /\ toast' = "none"
    /\ UNCHANGED <<store, now, writesLeft, appVars, phase, patientId,
                   isLoading, editMode, unsubscribeSnapshot, search>>

Snapshot == \E s \in subs : Deliver(s)

-----------------------------------------------------------------------------
(* The view: editing *)

\* A toggle that leaves the draft as the user typed it.
ToggleKeepsDraft(em, p, draft) == draft

\* Lines 128-131: the draft left by toggleEditMode.
DraftAfterToggle(em, p, draft) == IF em /\ p # Null THEN p ELSE draft

\* The toggle button, rendered while a patient is shown.
ToggleEditMode ==
    /\ Alive
    /\ patient # Null
    /\ editMode' = ~editMode
    /\ updateData' = DraftAfterToggle(editMode, patient, updateData)
    /\ draftFrom' = IF editMode THEN {shownDoc} ELSE draftFrom
    /\ toast' = "none"
    /\ UNCHANGED <<store, now, writesLeft, subs, appVars, phase,
                   patientId, isLoading, patient, unsubscribeSnapshot, search,
                   shownDoc>>

\* An input of the edit form, rendered while a patient is shown in edit mode.
HandleInputChange ==
    \E value \in Names :
        /\ Alive
        /\ patient # Null
        /\ editMode
        /\ updateData' = Spread(updateData, [name |-> value])
        /\ updateData' # updateData
        /\ draftFrom' = draftFrom \cup {shownDoc}
        /\ toast' = "none"
        /\ UNCHANGED <<store, now, writesLeft, subs, appVars, phase,
                       patientId, isLoading, patient, editMode,
                       unsubscribeSnapshot, search, shownDoc>>

\* The object literal with its two parts in the other order.
UpdateFieldsDraftLast(draft, t) == Spread([lastVisitDate |-> ToISOString(t)], draft)

\* Lines 148-151: the fields handed to updateDoc at time t.
UpdateFields(draft, t) == Spread(draft, [lastVisitDate |-> ToISOString(t)])

\* setEditMode(false) moved to a finally block.
EditModeOffAlways(succeeded, em) == FALSE

\* Lines 156-164: edit mode after updateDoc has answered.
EditModeAfterUpdate(succeeded, em) == IF succeeded THEN FALSE ELSE em

\* new Date() reads the clock, which has gone on since it was last read.
ReadClock == now' = now + 1

\* handleUpdatePatient, on the submit of the edit form (rendered while a
\* patient is shown in edit mode), with updateDoc resolving: the store has
\* applied the partial update.
UpdateSucceeds ==
    /\ Alive
    /\ patient # Null
    /\ editMode
    /\ store[patient.id] # Absent
    /\ writesLeft > 0
    /\ writesLeft' = writesLeft - 1
    /\ ReadClock
    /\ store' = [store EXCEPT ![patient.id] = Merge(@, UpdateFields(updateData, now'))]
    /\ subs' = Notify(subs, patient.id)
    /\ toast' = "updated"
    /\ editMode' = EditModeAfterUpdate(TRUE, editMode)
    /\ UNCHANGED <<appVars, phase, patientId,
                   isLoading, patient, updateData, unsubscribeSnapshot, search,
                   histVars>>

\* handleUpdatePatient with updateDoc rejecting (the network, the rules, or
\* a document that is gone).
UpdateFails ==
    /\ Alive
    /\ patient # Null
    /\ editMode
    /\ toast' = "update_failed"
    /\ editMode' = EditModeAfterUpdate(FALSE, editMode)
    /\ UNCHANGED <<store, now, writesLeft, subs, appVars, phase,
                   patientId, isLoading, patient, updateData,
                   unsubscribeSnapshot, search, histVars>>

\* The unsubscribeSnapshot the effect's cleanup closes over: the effect has
\* no dependencies, so it is the one of the first render.
CleanupUnsubscribeSnapshot == NoHandle

\* The view is unmounted: the effect's cleanup runs and the state of the
\* component is discarded.
Unmount ==
    /\ Alive
    /\ phase' = "unmounted"
    /\ subs' = Unsubscribe(subs, CleanupUnsubscribeSnapshot)
    /\ patientId' = <<>>
    /\ isLoading' = FALSE
    /\ patient' = Null
    /\ editMode' = FALSE
    /\ updateData' = Empty
    /\ unsubscribeSnapshot' = NoHandle
    /\ shownDoc' = NoDoc
    /\ draftFrom' = {}
    /\ toast' = "none"
    /\ UNCHANGED <<store, now, writesLeft, appVars, search>>

Next ==
    \/ RemoteChange
    \/ RemoteDelete
    \/ MountEffect
    \/ ClickSearch
    \/ QueryEmpty
    \/ QueryFound
    \/ QueryFail
    \/ Snapshot
    \/ ToggleEditMode
    \/ HandleInputChange
    \/ UpdateSucceeds
    \/ UpdateFails
    \/ Unmount

Spec == Init /\ [][Next]_vars

\* getDocs answers in the end: it resolves or it rejects.
QueryAnswered == QueryEmpty \/ QueryFound \/ QueryFail

\* The same program, with a store that leaves no query unanswered for ever.
FairSpec == Spec /\ WF_vars(QueryAnswered)

\* The same program, with a store that goes through one change more.
MoreInit == InitWrites(MoreWrites) /\ AppAtView

MoreSpec == MoreInit /\ [][Next]_vars

-----------------------------------------------------------------------------
(* ProtectedRoute (src/src/components/Sidebar.tsx) and the Login page *)

\* A guard that looks for the user before it looks at loading.
ProtectedRouteUserFirst(user, loading) ==
    IF user = NoUser THEN "navigate_login"
    ELSE IF loading THEN "loading"
    ELSE "children"

\* Lines 76-82: what ProtectedRoute returns.
ProtectedRoute(user, loading) ==
    IF loading THEN "loading"
    ELSE IF user = NoUser THEN "navigate_login"
    ELSE "children"

\* ProtectedRoute renders at a guarded path; <Navigate to="/login" />, once
\* rendered, moves the router there.
RenderProtectedRoute ==
    /\ location \in Protected
    /\ rendered' = ProtectedRoute(currentUser, authLoading)
    /\ location' = IF rendered' = "navigate_login" THEN "/login" ELSE location
    /\ toast' = "none"
    /\ UNCHANGED <<currentUser, authLoading, loginVars, pageVars>>

\* The auth provider settles or changes its state: a session is found, or
\* none, or the user is signed out.  Once settled it is not loading again.
AuthStateChanged ==
    \E u \in Doctors \cup {NoUser} :
        /\ authLoading \/ u # currentUser
        /\ currentUser' = u
        /\ authLoading' = FALSE
        /\ toast' = "none"
        /\ UNCHANGED <<location, rendered, loginVars, pageVars>>

\* Leaving /login unmounts the Login page, whose state is discarded.
LoginStateAt(path, u, p, l) ==
    IF path = "/login" THEN <<u, p, l>> ELSE <<"", "", FALSE>>

\* The user follows a link or enters an address.
GoTo ==
    \E path \in Paths \ {location} :
        /\ location' = path
        /\ rendered' = "nothing"
        /\ LET st == LoginStateAt(path, "", "", FALSE) IN
             /\ username' = st[1]
             /\ password' = st[2]
             /\ loginIsLoading' = st[3]
        /\ toast' = "none"
        /\ UNCHANGED <<currentUser, authLoading, loginCall, pageVars>>

\* Lines 443 and 457: the two inputs of the Login form.
SetUsername ==
    \E v \in Usernames \ {username} :
        /\ location = "/login"
        /\ username' = v
        /\ toast' = "none"
        /\ UNCHANGED <<currentUser, authLoading, location, rendered, password,
                       loginIsLoading, loginCall, pageVars>>

SetPassword ==
    \E v \in Passwords \ {password} :
        /\ location = "/login"
        /\ password' = v
        /\ toast' = "none"
        /\ UNCHANGED <<currentUser, authLoading, location, rendered, username,
                       loginIsLoading, loginCall, pageVars>>

\* A check that is content with one of the two fields.
LoginFilledEither(u, p) == u # "" \/ p # ""

\* Line 397: neither !username nor !password.
LoginFilled(u, p) == u # "" /\ p # ""

\* Login.handleSubmit, from the submit of the form (its button is disabled
\* while isLoading) to await login.
HandleSubmit ==
    /\ location = "/login"
    /\ ~loginIsLoading
    /\ IF ~LoginFilled(username, password)
         THEN /\ toast' = "fill_fields"
              /\ UNCHANGED <<loginIsLoading, loginCall>>
         ELSE /\ loginIsLoading' = TRUE
              /\ loginCall' = [pc |-> "calling",
                               username |-> username,
                               password |-> password]
              /\ toast' = "none"
    /\ UNCHANGED <<currentUser, authLoading, location, rendered, username,
                   password, pageVars>>

\* login resolves: toast, navigate("/dashboard"), and the finally block.
\* (The provider tells of the new user by a change of its state.)
LoginResolves ==
    /\ loginCall.pc = "calling"
    /\ toast' = "login_ok"
    /\ location' = "/dashboard"
    /\ rendered' = IF location = "/dashboard" THEN rendered ELSE "nothing"
    /\ LET st == LoginStateAt("/dashboard", username, password, FALSE) IN
         /\ username' = st[1]
         /\ password' = st[2]
         /\ loginIsLoading' = st[3]
    /\ loginCall' = Idle
    /\ UNCHANGED <<currentUser, authLoading, pageVars>>

\* login rejects: the catch block toasts, then the finally block.
LoginRejects ==
    /\ loginCall.pc = "calling"
    /\ toast' = "login_failed"
    /\ loginIsLoading' = FALSE
    /\ loginCall' = Idle
    /\ UNCHANGED <<currentUser, authLoading, location, rendered, username,
                   password, pageVars>>

\* The app is opened at some path, before the auth provider has settled;
\* the Search/Edit view is not followed.
AuthInit ==
    /\ InitWrites(MaxWrites)
    /\ patientId = <<>>
    /\ authLoading = TRUE
    /\ location \in Paths
    /\ rendered = "nothing"
    /\ username = ""
    /\ password = ""
    /\ loginIsLoading = FALSE
    /\ loginCall = Idle

AuthNext ==
    \/ RenderProtectedRoute
    \/ AuthStateChanged
    \/ GoTo
    \/ SetUsername
    \/ SetPassword
    \/ HandleSubmit
    \/ LoginResolves
    \/ LoginRejects

AuthSpec == AuthInit /\ [][AuthNext]_vars

-----------------------------------------------------------------------------
(* Properties *)

\* The identifier is empty or holds whitespace only.
IsBlank(s) == \A i \in 1 .. Len(s) : s[i] \in Whitespace

\* handleSearch is called, by the button or by the effect of the first render.
HandleSearchCalled == ClickSearch \/ (MountEffect /\ AutoSearch(patientId))

\* C1: when the entered identifier is empty or whitespace-only, or there is
\* no current user, handleSearch issues no query and opens no listener; it
\* raises a validation error and leaves record, draft, edit mode and loading
\* flag as they were.
C1_ValidationShortCircuits ==
    [][ (HandleSearchCalled /\ (IsBlank(patientId') \/ currentUser = NoUser))
          => /\ search'.pc = "idle"
             /\ subs' = subs
             /\ store' = store
             /\ patient' = patient
             /\ updateData' = updateData
             /\ editMode' = editMode
             /\ isLoading' = isLoading
             /\ toast' \in {"enter_id", "must_login"} ]_vars

\* A whitespace-only identifier has just been refused for a logged-in doctor.
C1_Witness ==
    /\ toast = "enter_id"
    /\ patientId = <<" ">>
    /\ currentUser \in Doctors
    /\ ~isLoading

\* C2: at most one listener is live, and it is the one whose handle the
\* view holds: each successful search has detached the listener before it.
C2_AtMostOneListener ==
    /\ Cardinality(subs) <= 1
    /\ Alive => \A s \in subs : s.id = unsubscribeSnapshot

\* A second search has been answered while the first record is still shown:
\* the listener of the first record is gone, the one of the second is live.
C2_Witness ==
    /\ patient # Null
    /\ patient.id = P1
    /\ \E s \in subs : s.doc = P2

\* C3 (as claimed): the record shown always belongs to the acting doctor.
C3_ShownRecordIsOwn ==
    patient # Null => patient.doctorId = currentUser

\* C4 (as claimed): a snapshot delivered while the view is in edit mode
\* leaves the draft alone.
C4_NoMirrorWhileEditing ==
    [][ \A s \in subs : (Deliver(s) /\ editMode) => updateData' = updateData ]_vars

\* C5: toggling edit mode off with a record shown sets the draft to that
\* record and leaves the record alone.
C5_ToggleOffRestoresDraft ==
    [][ (ToggleEditMode /\ editMode /\ patient # Null)
          => /\ updateData' = patient
             /\ patient' = patient
             /\ ~editMode' ]_vars

\* Edit mode is off and the draft is the record with its id, which no
\* snapshot holds while the store has never been written to.
C5_Witness ==
    /\ Alive
    /\ ~editMode
    /\ patient # Null
    /\ updateData = patient
    /\ writesLeft = MaxWrites

\* C6: the update written has lastVisitDate at the time of submission, and
\* every other field of the draft as the draft gives it.
C6_UpdateStampsSubmissionTime ==
    [][ UpdateSucceeds
          => /\ store'[patient.id].lastVisitDate = ToISOString(now')
             /\ \A f \in DOMAIN updateData \ {"lastVisitDate"} :
                   /\ f \in DOMAIN store'[patient.id]
                   /\ store'[patient.id][f] = updateData[f] ]_vars

\* An update has just been written from a draft that carried another
\* lastVisitDate.
C6_Witness ==
    /\ toast = "updated"
    /\ patient # Null
    /\ "lastVisitDate" \in DOMAIN updateData
    /\ store[patient.id].lastVisitDate # updateData.lastVisitDate

\* C7: a failed update leaves edit mode, draft and record as they were and
\* raises the update-failed notification; a successful one ends edit mode.
C7_UpdateOutcome ==
    [][ /\ UpdateFails => /\ editMode' = editMode
                          /\ updateData' = updateData
                          /\ patient' = patient
                          /\ store' = store
                          /\ toast' = "update_failed"
        /\ UpdateSucceeds => ~editMode' ]_vars

\* An update has just failed and the view is still in edit mode.
C7_Witness ==
    /\ toast = "update_failed"
    /\ editMode
    /\ patient # Null

\* C8: after a search that matched nothing, no record is shown and no
\* listener is live.
C8_NotFoundClears ==
    [][ QueryEmpty => (patient' = Null /\ subs' = {}) ]_vars

\* A search has just matched nothing, in a view that had opened a listener.
C8_Witness ==
    /\ toast = "not_found"
    /\ Alive
    /\ unsubscribeSnapshot # NoHandle

\* C9 (as claimed): while a query is in flight, no callback of the listener
\* attached before it runs.
C9_NoCallbackDuringQuery ==
    [][ \A s \in subs : ~(search.pc = "querying" /\ Deliver(s)) ]_vars

\* C9 (amended): calling handleSearch detaches nothing; the listener attached
\* before is detached when the query has answered, found or not found, and
\* only the new listener, if any, is live from then on.
C9_DetachWhenAnswered ==
    [][ /\ HandleSearchCalled => subs' = subs
        /\ QueryFound => /\ Cardinality(subs') = 1
                         /\ \A t \in subs' : /\ t.doc = search.patientId
                                             /\ t.editMode = search.editMode
                                             /\ t.pending
        /\ QueryEmpty => subs' = {} ]_vars

\* A query is in flight and the listener attached before it is still live.
C9_Witness ==
    /\ search.pc = "querying"
    /\ \E s \in subs : s.id = search.unsubscribeSnapshot

\* C10 (as claimed): once the view is unmounted, no listener is live.
C10_UnmountReleases ==
    phase = "unmounted" => subs = {}

\* C11: a search that fails is reported, and leaves the record on display,
\* the draft, the edit-mode flag and the live listener as they were, both
\* when it is started and when the query rejects.
C11_FailedSearchKeepsState ==
    [][ /\ (HandleSearchCalled \/ QueryFail) =>
              /\ patient' = patient
              /\ updateData' = updateData
              /\ editMode' = editMode
              /\ unsubscribeSnapshot' = unsubscribeSnapshot
              /\ subs' = subs
        /\ QueryFail => toast' = "search_failed" ]_vars

\* A search has just failed while a record was on display with its listener.
C11_Witness ==
    /\ toast = "search_failed"
    /\ patient # Null
    /\ \E s \in subs : s.id = unsubscribeSnapshot /\ s.doc = patient.id

\* C12 (as claimed): the edit-mode flag is on only while a record is in the
\* current-record slot.
C12_EditingOnlyWhenFound ==
    editMode => patient # Null

\* C13: the effect of the first render calls handleSearch, once, with the
\* identifier of the query string when that is non-empty, and starts nothing
\* when it is empty; the effect never runs again.
C13_AutoSearchOnce ==
    [][ /\ (MountEffect /\ patientId # <<>>) =>
              /\ patientId' = patientId
              /\ \/ search'.pc = "querying" /\ search'.patientId = patientId
                                            /\ isLoading'
                 \/ search'.pc = "idle" /\ toast' \in {"enter_id", "must_login"}
                                        /\ (IsBlank(patientId) \/ currentUser = NoUser)
        /\ (MountEffect /\ patientId = <<>>) =>
              /\ search' = search
              /\ isLoading' = isLoading
              /\ toast' = toast
        /\ phase # "rendered" => ~MountEffect ]_vars

\* The first render's search is under way: nothing has been typed or shown.
C13_Witness ==
    /\ phase = "mounted"
    /\ search.pc = "querying"
    /\ search.patientId = patientId
    /\ search.unsubscribeSnapshot = NoHandle
    /\ patient = Null
    /\ subs = {}
    /\ writesLeft = MaxWrites

\* C15: while the view is mounted the loading flag is set exactly while a
\* query is in flight (so the disabled button lets no second one start), and
\* with a store that answers in the end, a set flag is cleared in the end.
C15_LoadingCleared ==
    /\ [](Alive => (isLoading <=> search.pc = "querying"))
    /\ [][ClickSearch => ~isLoading]_vars
    /\ (isLoading ~> ~isLoading)

\* A second search is in flight while the first one's record is on display.
C15_Witness ==
    /\ isLoading
    /\ search.pc = "querying"
    /\ patient # Null
    /\ subs # {}

\* C14 (as claimed): the draft a submit writes to a record holds only values
\* mirrored from that record or typed while that record was on display.
C14_DraftBelongsToTarget ==
    [][ UpdateSucceeds => draftFrom \subseteq {patient.id} ]_vars

\* C16 (as claimed): a submit writes to the document on display and to no
\* other, and the documents keep the identifiers the store gave them.
C16_WritesShownRecordOnly ==
    [][ UpdateSucceeds =>
          /\ patient.id = shownDoc
          /\ \A d \in DocIds \ {shownDoc} : store'[d] = store[d]
          /\ DOMAIN store' = DOMAIN store ]_vars

\* C17: ProtectedRoute returns its children exactly when auth is not loading
\* and a user is present; while loading it returns the placeholder and the
\* path stays; not loading and without a user, it sends the router to /login.
C17_ProtectedRouteGuards ==
    [][ RenderProtectedRoute =>
          /\ rendered' = "children" <=> (~authLoading /\ currentUser # NoUser)
          /\ authLoading => (rendered' = "loading" /\ location' = location)
          /\ (~authLoading /\ currentUser = NoUser) =>
                (rendered' = "navigate_login" /\ location' = "/login") ]_vars

\* The placeholder is up at a guarded path while auth is loading and a user
\* is already known.
C17_Witness ==
    /\ rendered = "loading"
    /\ authLoading
    /\ currentUser # NoUser
    /\ location \in Protected

\* C18: handleSubmit calls login only with both fields non-empty, and with
\* what they hold; only login's success moves the router, and to /dashboard;
\* a failed login leaves the path; either way isLoading is cleared.
C18_LoginSubmit ==
    [][ /\ (HandleSubmit /\ (username = "" \/ password = "")) =>
              /\ loginCall' = loginCall
              /\ ~loginIsLoading'
              /\ toast' = "fill_fields"
        /\ (loginCall.pc = "idle" /\ loginCall'.pc = "calling") =>
              /\ username # "" /\ password # ""
              /\ loginCall'.username = username
              /\ loginCall'.password = password
              /\ loginIsLoading'
        /\ (HandleSubmit \/ LoginRejects) => location' = location
        /\ LoginResolves => (location' = "/dashboard" /\ ~loginIsLoading')
        /\ LoginRejects => (~loginIsLoading' /\ toast' = "login_failed") ]_vars

\* A login with both fields filled has just failed, at the Login page.
C18_Witness ==
    /\ toast = "login_failed"
    /\ location = "/login"
    /\ username # ""
    /\ password # ""
    /\ ~loginIsLoading

====
